---- MODULE Spec2Model ----
(***************************************************************************)
(* Model of src/inventory_app.py: the InventoryApp window, its ledger      *)
(* self._items, the Treeview table that mirrors it, the entry form, and    *)
(* the four button callbacks add_item, delete_selected, clear_items and    *)
(* export_csv.                                                             *)
(*                                                                         *)
(* A text (Python str) is a sequence of one-character strings, so that     *)
(* strip(), int(), str() and the CSV writer are computed character by      *)
(* character.  A Python value whose type matters (InventoryItem.quantity,  *)
(* which is an int after add_item and a str after the table read-back in   *)
(* delete_selected) is a tagged record, see PyInt and PyStr.               *)
(***************************************************************************)
EXTENDS Integers, Sequences, FiniteSets, TLC

VARIABLES
    items,      \* self._items: the ledger, a sequence of InventoryItem
    tree,       \* self.tree: the rows of the Treeview, each a 4-tuple of texts
    selection,  \* self.tree.selection() as the most recent callback read it
    form,       \* name_var, quantity_var, location_var, notes_var
    disk,       \* the file behind the path the save dialog offers
    event,      \* the most recent user event (a callback name, or an edit)
    shown,      \* the dialogs the most recent callback opened, in order
    ioresult,   \* what the most recent callback's file write came to
    escaped     \* the exception that left the most recent callback

vars == <<items, tree, selection, form, disk, event, shown, ioresult, escaped>>

\* The most entries the ledger holds in the model (add_item is not offered
\* beyond it).
MaxItems == 2

-----------------------------------------------------------------------------
(* Texts *)

CR == "\r"
LF == "\n"
QUOTE == "\""
COMMA == ","
SPACE == " "

DigitChars == <<"0", "1", "2", "3", "4", "5", "6", "7", "8", "9">>

IsDigit(c) == \E d \in 1..Len(DigitChars) : DigitChars[d] = c

DigitVal(c) == (CHOOSE d \in 1..Len(DigitChars) : DigitChars[d] = c) - 1

\* str.isspace() for the characters of the model
IsSpace(c) == c \in {SPACE, "\t", CR, LF}

RECURSIVE LStrip(_)
LStrip(s) ==
    IF s # <<>> /\ IsSpace(Head(s)) THEN LStrip(Tail(s)) ELSE s

RECURSIVE RStrip(_)
RStrip(s) ==
    IF s # <<>> /\ IsSpace(s[Len(s)]) THEN RStrip(SubSeq(s, 1, Len(s) - 1)) ELSE s

\* str.strip()
Strip(s) == RStrip(LStrip(s))

\* str(n) for an int n: the decimal form
RECURSIVE NatToText(_)
NatToText(n) ==
    IF n < 10 THEN <<DigitChars[n + 1]>>
    ELSE NatToText(n \div 10) \o <<DigitChars[(n % 10) + 1]>>

IntToText(n) == IF n < 0 THEN <<"-">> \o NatToText(0 - n) ELSE NatToText(n)

\* The digits of an int literal, "_" allowed singly between digits.
DigitsOk(s) ==
    /\ s # <<>>
    /\ IsDigit(s[1])
    /\ IsDigit(s[Len(s)])
    /\ \A i \in 1..Len(s) : IsDigit(s[i]) \/ s[i] = "_"
    /\ \A i \in 1..(Len(s) - 1) : ~(s[i] = "_" /\ s[i + 1] = "_")

RECURSIVE DigitsVal(_)
DigitsVal(s) ==
    IF s = <<>> THEN 0
    ELSE IF s[Len(s)] = "_" THEN DigitsVal(SubSeq(s, 1, Len(s) - 1))
    ELSE 10 * DigitsVal(SubSeq(s, 1, Len(s) - 1)) + DigitVal(s[Len(s)])

HasSign(s) == s # <<>> /\ Head(s) \in {"+", "-"}

Unsigned(s) == IF HasSign(s) THEN Tail(s) ELSE s

\* int(text) raises ValueError
IntRaises(text) == ~DigitsOk(Unsigned(Strip(text)))

\* int(text) where it does not raise
IntOf(text) ==
    LET s == Strip(text)
        v == DigitsVal(Unsigned(s))
    IN  IF HasSign(s) /\ Head(s) = "-" THEN 0 - v ELSE v

-----------------------------------------------------------------------------
(* Python values and the ledger's entries *)

\* An int object and a str object.  The unused field keeps one shape for both.
PyInt(n) == [type |-> "int", n |-> n, s |-> <<>>]
PyStr(s) == [type |-> "str", n |-> 0, s |-> s]

\* str(v)
ToStr(v) == IF v.type = "int" THEN IntToText(v.n) ELSE v.s

\* The dataclass InventoryItem
InventoryItem(name, quantity, location, notes) ==
    [name |-> name, quantity |-> quantity, location |-> location, notes |-> notes]

\* The StringVars of the form
Form(name, quantity, location, notes) ==
    [name |-> name, quantity |-> quantity, location |-> location, notes |-> notes]

\* The form as _build_form creates it and as _reset_form leaves it.
ResetForm == Form(<<>>, <<"1">>, <<>>, <<>>)

\* What the user types into the form: a sample of valid and invalid contents.
Forms ==
    { ResetForm,
      Form(<<"A">>, <<"1">>, <<>>, <<>>),
      Form(<<"B">>, <<"2">>, <<>>, <<>>),
      Form(<<SPACE, "a", COMMA, "b">>, <<SPACE, "1", "0", SPACE>>,
           <<"R", SPACE>>, <<"x", QUOTE, "y">>),
      Form(<<SPACE, SPACE>>, <<"1">>, <<"R">>, <<>>),
      Form(<<"A">>, <<"0">>, <<>>, <<>>),
      Form(<<"A">>, <<"-", "1">>, <<>>, <<>>),
      Form(<<"A">>, <<"a", "b", "c">>, <<>>, <<>>),
      Form(<<"A">>, <<>>, <<>>, <<>>) }

\* A mutant of QuantityOk: accepts zero and negative quantities.
QuantityOkAnyInt(text) == ~IntRaises(text)

\* The try block of add_item passes: int() parses and the value is >= 1.
QuantityOk(text) == ~IntRaises(text) /\ IntOf(text) >= 1

\* A mutant of NewItem: location and notes are taken as typed.
NewItemUntrimmedRest(f) ==
    InventoryItem(Strip(f.name), PyInt(IntOf(f.quantity)), f.location, f.notes)

\* The InventoryItem add_item builds from the form.
NewItem(f) ==
    InventoryItem(Strip(f.name), PyInt(IntOf(f.quantity)),
                  Strip(f.location), Strip(f.notes))

\* The row values tree.insert stores for an item: Tk keeps each value as text.
Row(item) == <<item.name, ToStr(item.quantity), item.location, item.notes>>

\* InventoryItem(*self.tree.item(item, "values")): every field is a str.
ItemFromRow(row) == InventoryItem(row[1], PyStr(row[2]), row[3], row[4])

-----------------------------------------------------------------------------
(* Dialogs *)

Dialog(kind, what, answer) == [kind |-> kind, what |-> what, answer |-> answer]

WarnEmptyName == Dialog("showwarning", "EmptyName", "ok")
WarnInvalidQuantity == Dialog("showwarning", "InvalidQuantity", "ok")
InfoNoSelection == Dialog("showinfo", "NoSelection", "ok")
AskClear(yes) == Dialog("askyesno", "ConfirmClear", IF yes THEN "yes" ELSE "no")
InfoEmptyLedger == Dialog("showinfo", "EmptyLedger", "ok")
AskSaveAs(path) == Dialog("asksaveasfilename", "SavePath", path)
InfoSaved == Dialog("showinfo", "Saved", "ok")

\* What the save dialog returns: "" when cancelled.
Paths == {"", "inventur.csv"}

-----------------------------------------------------------------------------
(* The CSV writer *)

FieldNames ==
    << <<"A", "r", "t", "i", "k", "e", "l">>,
       <<"M", "e", "n", "g", "e">>,
       <<"S", "t", "a", "n", "d", "o", "r", "t">>,
       <<"N", "o", "t", "i", "z", "e", "n">> >>

\* QUOTE_MINIMAL: a field is quoted when it holds the delimiter, the quote
\* character or a character of the line terminator.
NeedsQuote(field) ==
    \E i \in 1..Len(field) : field[i] \in {COMMA, QUOTE, CR, LF}

RECURSIVE DoubleQuotes(_)
DoubleQuotes(field) ==
    IF field = <<>> THEN <<>>
    ELSE (IF Head(field) = QUOTE THEN <<QUOTE, QUOTE>> ELSE <<Head(field)>>)
         \o DoubleQuotes(Tail(field))

\* A mutant of CsvField: fields are written without quoting.
CsvFieldRaw(field) == field

CsvField(field) ==
    IF NeedsQuote(field) THEN <<QUOTE>> \o DoubleQuotes(field) \o <<QUOTE>>
    ELSE field

RECURSIVE JoinFields(_)
JoinFields(fields) ==
    IF Len(fields) = 1 THEN CsvField(fields[1])
    ELSE CsvField(Head(fields)) \o <<COMMA>> \o JoinFields(Tail(fields))

\* writer.writerow: the fields, then the line terminator "\r\n"
CsvLine(fields) == JoinFields(fields) \o <<CR, LF>>

\* The fields DictWriter writes for an item, in fieldnames order.
ItemFields(item) == <<item.name, ToStr(item.quantity), item.location, item.notes>>

\* The lines _write_csv writes: the header, then one line per item.
CsvLines(list) ==
    <<CsvLine(FieldNames)>> \o [i \in 1..Len(list) |-> CsvLine(ItemFields(list[i]))]

RECURSIVE Concat(_)
Concat(lines) == IF lines = <<>> THEN <<>> ELSE Head(lines) \o Concat(Tail(lines))

\* The file after k of the lines were written.
CsvPrefix(list, k) == Concat(SubSeq(CsvLines(list), 1, k))

CsvText(list) == CsvPrefix(list, Len(list) + 1)

NoFile == [exists |-> FALSE, text |-> <<>>]
File(text) == [exists |-> TRUE, text |-> text]

-----------------------------------------------------------------------------
(* The window *)

\* InventoryApp.__init__: an empty ledger, an empty table, the form reset.
Init ==
    /\ items = <<>>
    /\ tree = <<>>
    /\ selection = {}
    /\ form = ResetForm
    /\ disk = NoFile
    /\ event = "init"
    /\ shown = <<>>
    /\ ioresult = "none"
    /\ escaped = "none"

\* The user types into the entry fields.
EditForm ==
    /\ \E f \in Forms : form' = f
    /\ event' = "edit"
    /\ shown' = <<>>
    /\ ioresult' = "none"
    /\ escaped' = "none"
    /\ selection' = {}
    /\ UNCHANGED <<items, tree, disk>>

\* A mutant of add_item_accept: the table row is not appended.
add_item_accept_no_row ==
    /\ items' = Append(items, NewItem(form))
    /\ tree' = tree
    /\ form' = ResetForm
    /\ shown' = <<>>

\* add_item past its two checks: append, show, reset the form.
add_item_accept ==
    /\ items' = Append(items, NewItem(form))
    /\ tree' = Append(tree, Row(NewItem(form)))
    /\ form' = ResetForm
    /\ shown' = <<>>

\* add_item at one of its two early returns: the warning, nothing else.
add_item_reject(notice) ==
    /\ shown' = <<notice>>
    /\ UNCHANGED <<items, tree, form>>

\* The callback of the "Hinzufuegen" button.
add_item ==
    /\ event' = "add_item"
    /\ ioresult' = "none"
    /\ escaped' = "none"
    /\ selection' = {}
    /\ UNCHANGED disk
    /\ IF Strip(form.name) = <<>>
       THEN add_item_reject(WarnEmptyName)
       ELSE IF ~QuantityOk(form.quantity)
       THEN add_item_reject(WarnInvalidQuantity)
       ELSE Len(items) < MaxItems /\ add_item_accept

\* What tree.selection() may return: the user selects any rows of the table
\* before pressing the button (selectmode is the default "extended").  The
\* rows are named by their position in the table, counted from 1.
Selections == SUBSET (1..Len(tree))

\* selected_item[0]: tree.selection() lists the selected rows in table order.
FirstSelected(sel) == CHOOSE r \in sel : \A q \in sel : r <= q

\* A mutant of TreeIndex: the position counted from 1.
TreeIndexFromOne(row) == row

\* tree.index(item): the row's position counted from 0.
TreeIndex(row) == row - 1

\* The sequence s without its element at position p (counted from 1).
Without(s, p) == SubSeq(s, 1, p - 1) \o SubSeq(s, p + 1, Len(s))

\* del list[index] raises IndexError
DelRaises(list, index) == index >= Len(list) \/ index < 0 - Len(list)

\* list after del list[index], index counted from 0, negative from the end
DelAt(list, index) ==
    Without(list, IF index >= 0 THEN index + 1 ELSE Len(list) + index + 1)

\* A mutant of delete_selected_none: with nothing selected the last row goes.
delete_selected_none_drops_last ==
    /\ shown' = <<InfoNoSelection>>
    /\ items' = SubSeq(items, 1, Len(items) - 1)
    /\ tree' = SubSeq(tree, 1, Len(tree) - 1)

\* delete_selected with nothing selected: the notice, nothing else.
delete_selected_none ==
    /\ shown' = <<InfoNoSelection>>
    /\ UNCHANGED <<items, tree>>

\* delete_selected with a selection: the first selected row leaves the table,
\* and the entry at its index leaves the ledger; when that index is not one
\* of the ledger, the ledger is rebuilt from the rows left in the table.
delete_selected_row(selected_item) ==
    LET index == TreeIndex(FirstSelected(selected_item))
    IN  /\ shown' = <<>>
        /\ tree' = Without(tree, FirstSelected(selected_item))
        /\ IF DelRaises(items, index)
           THEN items' = [i \in 1..Len(tree') |-> ItemFromRow(tree'[i])]
           ELSE items' = DelAt(items, index)

\* The callback of the "Ausgewaehlten Eintrag loeschen" button.
delete_selected ==
    /\ event' = "delete_selected"
    /\ ioresult' = "none"
    /\ escaped' = "none"
    /\ UNCHANGED <<form, disk>>
    /\ \E selected_item \in Selections :
        /\ selection' = selected_item
        /\ IF selected_item = {}
           THEN delete_selected_none
           ELSE delete_selected_row(selected_item)

\* A mutant of clear_items_confirmed: the answer is not looked at.
clear_items_any_answer(yes) == TRUE

\* The answer to askyesno that lets clear_items go on.
clear_items_confirmed(yes) == yes

\* The callback of the "Liste leeren" button.
clear_items ==
    /\ event' = "clear_items"
    /\ ioresult' = "none"
    /\ escaped' = "none"
    /\ selection' = {}
    /\ UNCHANGED <<form, disk>>
    /\ \E yes \in BOOLEAN :
        /\ shown' = <<AskClear(yes)>>
        /\ IF clear_items_confirmed(yes)
           THEN tree' = <<>> /\ items' = <<>>
           ELSE UNCHANGED <<items, tree>>

\* A mutant of export_csv_refused: an empty ledger is exported too.
export_csv_refused_never == FALSE

\* The first check of export_csv: nothing to save.
export_csv_refused == items = <<>>

\* How _write_csv(path) ends: it completes, or an OSError is raised at
\* path.open (the file is left as it was) or after k of the lines went out
\* (the file was truncated by open and holds those k lines).
WriteOutcome(at, k) == [at |-> at, k |-> k]

WriteOutcomes(list) ==
    {WriteOutcome("done", Len(list) + 1), WriteOutcome("open", 0)}
        \cup {WriteOutcome("write", k) : k \in 0..Len(list)}

\* _write_csv(path)
write_csv(outcome) ==
    IF outcome.at = "done"
    THEN disk' = File(CsvText(items)) /\ ioresult' = "ok"
    ELSE IF outcome.at = "open"
    THEN disk' = disk /\ ioresult' = "failed"
    ELSE disk' = File(CsvPrefix(items, outcome.k)) /\ ioresult' = "failed"

\* The callback of the "Als CSV speichern" button.
export_csv ==
    /\ event' = "export_csv"
    /\ selection' = {}
    /\ UNCHANGED <<items, tree, form>>
    /\ IF export_csv_refused
       THEN /\ shown' = <<InfoEmptyLedger>>
            /\ ioresult' = "none"
            /\ escaped' = "none"
            /\ UNCHANGED disk
       ELSE \E file_path \in Paths :
            IF file_path = ""
            THEN /\ shown' = <<AskSaveAs(file_path)>>
                 /\ ioresult' = "none"
                 /\ escaped' = "none"
                 /\ UNCHANGED disk
            ELSE \E outcome \in WriteOutcomes(items) :
                 /\ write_csv(outcome)
                 /\ IF outcome.at = "done"
                    THEN /\ shown' = <<AskSaveAs(file_path), InfoSaved>>
                         /\ escaped' = "none"
                    ELSE /\ shown' = <<AskSaveAs(file_path)>>
                         /\ escaped' = "OSError"

Next ==
    \/ EditForm
    \/ add_item
    \/ delete_selected
    \/ clear_items
    \/ export_csv

Spec == Init /\ [][Next]_vars

-----------------------------------------------------------------------------
(* Reading a CSV file back, as csv.reader does *)

\* The reader's state: its mode, the field and the row being read, and the
\* rows read so far.
Reader(mode, field, row, rows) ==
    [mode |-> mode, field |-> field, row |-> row, rows |-> rows]

\* One character read inside a quoted field.
QuotedStep(st, c) ==
    IF c = QUOTE
    THEN Reader("quote_in_quoted", st.field, st.row, st.rows)
    ELSE Reader("in_quoted", Append(st.field, c), st.row, st.rows)

\* One character read outside a quoted field.
PlainStep(st, c) ==
    IF st.mode = "quote_in_quoted" /\ c = QUOTE
    THEN Reader("in_quoted", Append(st.field, QUOTE), st.row, st.rows)
    ELSE IF st.mode = "after_cr" /\ c = LF
    THEN Reader("start_record", <<>>, <<>>, st.rows)
    ELSE IF c = QUOTE /\ st.mode \in {"start_record", "after_cr", "start_field"}
    THEN Reader("in_quoted", <<>>, st.row, st.rows)
    ELSE IF c = COMMA
    THEN Reader("start_field", <<>>, Append(st.row, st.field), st.rows)
    ELSE IF c \in {CR, LF}
    THEN Reader(IF c = CR THEN "after_cr" ELSE "start_record", <<>>, <<>>,
                Append(st.rows, IF st.mode \in {"start_record", "after_cr"}
                                THEN <<>>
                                ELSE Append(st.row, st.field)))
    ELSE Reader("in_field", Append(st.field, c), st.row, st.rows)

RECURSIVE CsvScan(_, _, _)
CsvScan(s, i, st) ==
    IF i > Len(s) THEN st
    ELSE IF st.mode = "in_quoted"
    THEN CsvScan(s, i + 1, QuotedStep(st, s[i]))
    ELSE CsvScan(s, i + 1, PlainStep(st, s[i]))

\* list(csv.reader(file)): the rows of the file, each a sequence of fields
CsvRows(text) ==
    LET st == CsvScan(text, 1, Reader("start_record", <<>>, <<>>, <<>>))
    IN  IF st.mode \in {"start_record", "after_cr"} THEN st.rows
        ELSE Append(st.rows, Append(st.row, st.field))

\* The first line of the file, up to and including its line feed.
FirstLine(text) ==
    IF \E i \in 1..Len(text) : text[i] = LF
    THEN SubSeq(text, 1, CHOOSE i \in 1..Len(text) :
                            text[i] = LF /\ \A j \in 1..(i - 1) : text[j] # LF)
    ELSE text

-----------------------------------------------------------------------------
(* Properties *)

\* The values a row shows for an entry: the quantity in the text form str()
\* gives it.
Shows(row, item) ==
    /\ row[1] = item.name
    /\ row[2] = (IF item.quantity.type = "int" THEN IntToText(item.quantity.n)
                 ELSE item.quantity.s)
    /\ row[3] = item.location
    /\ row[4] = item.notes

\* C1: in every reachable state the table and the ledger have the same
\* length, and the row at each position shows the name, quantity, location
\* and notes of the entry at that position.
C1_TableMirrorsLedger ==
    /\ Len(tree) = Len(items)
    /\ \A i \in 1..Len(items) : Len(tree[i]) = 4 /\ Shows(tree[i], items[i])

\* C1 witness: a row other than the last was deleted from a full table, and
\* an entry is left.
C1_Witness ==
    /\ event = "delete_selected"
    /\ selection # {}
    /\ MaxItems \notin selection
    /\ Len(items) = MaxItems - 1
    /\ Len(items) >= 1

\* The input add_item accepts: a name that is not blank once trimmed, and a
\* quantity text that parses to an integer >= 1.
ValidInput(f) ==
    /\ Strip(f.name) # <<>>
    /\ ~IntRaises(f.quantity)
    /\ IntOf(f.quantity) >= 1

\* The ledger after one entry was appended to it and nothing else changed.
AppendedOne(entry) ==
    /\ Len(items') = Len(items) + 1
    /\ SubSeq(items', 1, Len(items)) = items
    /\ items'[Len(items')] = entry

\* C2 as stated: add_item on a valid input appends exactly one entry equal
\* to the input with only the name trimmed, the length grows by one and the
\* earlier entries keep their values and positions.
C2_Original ==
    [][(event' = "add_item" /\ ValidInput(form)) =>
          AppendedOne(InventoryItem(Strip(form.name), PyInt(IntOf(form.quantity)),
                                    form.location, form.notes))]_vars

\* C2 amended: add_item on a valid input appends exactly one entry holding
\* the trimmed name, the parsed quantity, the trimmed location and the
\* trimmed notes; the length grows by one and the earlier entries keep their
\* values and positions.
C2_AddAppendsTrimmedEntry ==
    [][(event' = "add_item" /\ ValidInput(form)) =>
          AppendedOne(InventoryItem(Strip(form.name), PyInt(IntOf(form.quantity)),
                                    Strip(form.location), Strip(form.notes)))]_vars

\* C2 witness: the entry typed with blanks around its fields was added
\* behind another entry.
C2_Witness ==
    /\ event = "add_item"
    /\ shown = <<>>
    /\ Len(items) = 2
    /\ items[2] = InventoryItem(<<"a", COMMA, "b">>, PyInt(10), <<"R">>,
                                <<"x", QUOTE, "y">>)

\* The quantity texts the specification names as invalid.
InvalidQuantityTexts == {<<"0">>, <<"-", "1">>, <<"a", "b", "c">>, <<>>}

\* C3: a rejected add changes neither the ledger nor the table and shows one
\* warning: for an empty or blank name the EmptyName warning; otherwise, for
\* a quantity text that does not parse or is below 1 ("0", "-1", "abc" and
\* "" among them), the InvalidQuantity warning.
C3_RejectedAddIsNoOp ==
    [][(event' = "add_item") =>
          /\ (Strip(form.name) = <<>>) =>
                (items' = items /\ tree' = tree /\ shown' = <<WarnEmptyName>>)
          /\ (/\ Strip(form.name) # <<>>
              /\ \/ form.quantity \in InvalidQuantityTexts
                 \/ ~ValidInput(form)) =>
                (items' = items /\ tree' = tree /\ shown' = <<WarnInvalidQuantity>>)]_vars

\* C3 witness: the quantity "-1" was refused on a ledger that holds an entry.
C3_Witness ==
    /\ event = "add_item"
    /\ shown = <<WarnInvalidQuantity>>
    /\ form.quantity = <<"-", "1">>
    /\ Len(items) = 1

\* C4: deleting with a selection whose first row is at index i (counted from
\* 0) shortens the ledger by one and removes the entry formerly at i; the
\* entries before it keep their places and those behind it move up by one.
\* With ("A",1,"","") and ("B",2,"","") in the ledger, removing index 0
\* leaves exactly ("B",2,"","").
C4_DeleteRemovesSelected ==
    [][(event' = "delete_selected" /\ selection' # {}) =>
          LET i == CHOOSE r \in selection' : \A q \in selection' : r <= q
          IN  /\ i \in 1..Len(items)
              /\ Len(items') = Len(items) - 1
              /\ \A j \in 1..Len(items') :
                    items'[j] = (IF j < i THEN items[j] ELSE items[j + 1])
              /\ (/\ items = <<InventoryItem(<<"A">>, PyInt(1), <<>>, <<>>),
                               InventoryItem(<<"B">>, PyInt(2), <<>>, <<>>)>>
                  /\ i = 1) =>
                    items' = <<InventoryItem(<<"B">>, PyInt(2), <<>>, <<>>)>>]_vars

\* C4 witness: row 0 was selected and deleted, and ("B",2,"","") is the one
\* entry left.
C4_Witness ==
    /\ event = "delete_selected"
    /\ 1 \in selection
    /\ items = <<InventoryItem(<<"B">>, PyInt(2), <<>>, <<>>)>>
    /\ tree = << <<<<"B">>, <<"2">>, <<>>, <<>>>> >>

\* C5: delete_selected with no row selected shows the NoSelection notice,
\* raises nothing, and changes neither the ledger nor the table.
C5_DeleteWithoutSelection ==
    [][(event' = "delete_selected" /\ selection' = {}) =>
          /\ shown' = <<InfoNoSelection>>
          /\ escaped' = "none"
          /\ items' = items
          /\ tree' = tree]_vars

\* C5 witness: the notice was shown over a ledger that holds entries.
C5_Witness ==
    /\ event = "delete_selected"
    /\ selection = {}
    /\ shown = <<InfoNoSelection>>
    /\ Len(items) = MaxItems

\* C6: clear_items asks for confirmation once; answered yes, the ledger and
\* the table are empty afterwards; answered no, both are as before.
C6_ClearOnlyWhenConfirmed ==
    [][(event' = "clear_items") =>
          \/ /\ shown' = <<AskClear(TRUE)>>
             /\ items' = <<>>
             /\ tree' = <<>>
          \/ /\ shown' = <<AskClear(FALSE)>>
             /\ items' = items
             /\ tree' = tree]_vars

\* C6 witness: the confirmation was declined and the entries are still there.
C6_Witness ==
    /\ event = "clear_items"
    /\ shown = <<AskClear(FALSE)>>
    /\ Len(items) = MaxItems
    /\ Len(tree) = MaxItems

\* C7: export_csv on an empty ledger shows the EmptyLedger notice and nothing
\* else: no save prompt, no file opened or written, the file on disk as it
\* was.
C7_EmptyLedgerNotExported ==
    [][(event' = "export_csv" /\ items = <<>>) =>
          /\ shown' = <<InfoEmptyLedger>>
          /\ ioresult' = "none"
          /\ escaped' = "none"
          /\ disk' = disk]_vars

\* C7 witness: the export of an emptied ledger was refused, and the file of
\* an earlier export is on disk.
C7_Witness ==
    /\ event = "export_csv"
    /\ items = <<>>
    /\ shown = <<InfoEmptyLedger>>
    /\ disk.exists

\* What a successfully exported file holds: its first line is
\* Artikel,Menge,Standort,Notizen, and it reads back as the header row
\* followed by one row per entry, in ledger order, each holding the entry's
\* name, its quantity in decimal form, its location and its notes.
ExportedFileHoldsLedger ==
    (event = "export_csv" /\ ioresult = "ok") =>
        /\ disk.exists
        /\ FirstLine(disk.text) =
              <<"A", "r", "t", "i", "k", "e", "l", COMMA,
                "M", "e", "n", "g", "e", COMMA,
                "S", "t", "a", "n", "d", "o", "r", "t", COMMA,
                "N", "o", "t", "i", "z", "e", "n", CR, LF>>
        /\ LET rows == CsvRows(disk.text)
           IN  /\ Len(rows) = Len(items) + 1
               /\ rows[1] = FieldNames
               /\ \A i \in 1..Len(items) :
                     /\ Len(rows[i + 1]) = 4
                     /\ Shows(rows[i + 1], items[i])
                     /\ items[i].quantity = PyInt(10) =>
                           rows[i + 1][2] = <<"1", "0">>

\* C8: a successful export writes exactly the header row and one data row
\* per entry, in ledger order, with the entry's fields verbatim and the
\* quantity in decimal form, and it leaves the ledger as it was.
C8_ExportWritesLedger ==
    /\ []ExportedFileHoldsLedger
    /\ [][(event' = "export_csv") => (items' = items /\ tree' = tree)]_vars

\* C8 witness: a ledger of two entries, one of them with a comma in its name
\* and a quote in its notes, was exported.
C8_Witness ==
    /\ event = "export_csv"
    /\ ioresult = "ok"
    /\ InfoSaved = shown[Len(shown)]
    /\ Len(items) = 2
    /\ \E i \in 1..2 :
          /\ Len(items[i].name) >= 2 /\ items[i].name[2] = COMMA
          /\ Len(items[i].notes) >= 2 /\ items[i].notes[2] = QUOTE

\* C9 as stated: when the write of export_csv fails, no exception leaves the
\* callback, a notice other than the success notice is shown, and the
\* success notice is not.
C9_WriteFailureSurfaced ==
    (event = "export_csv" /\ ioresult = "failed") =>
        /\ escaped = "none"
        /\ \E i \in 1..Len(shown) :
              /\ shown[i].kind \in {"showinfo", "showwarning", "showerror"}
              /\ shown[i] # InfoSaved
        /\ \A i \in 1..Len(shown) : shown[i] # InfoSaved

\* C10: in every reachable state every entry of the ledger has a non-empty
\* name and a quantity that is an int >= 1.
C10_EntriesWellFormed ==
    \A i \in 1..Len(items) :
        /\ items[i].name # <<>>
        /\ items[i].quantity.type = "int"
        /\ items[i].quantity.n >= 1

\* C10 witness: the last row of a full table was deleted, and the entry
\* typed as " 10 " is in the ledger.
C10_Witness ==
    /\ event = "delete_selected"
    /\ selection = {MaxItems}
    /\ Len(items) >= 1
    /\ \E i \in 1..Len(items) : items[i].quantity = PyInt(10)

=============================================================================
